---- MODULE Spec2Model ----
(***************************************************************************)
(* SimplePubSub: createPubSub (a Bus: one flat map of subscriptions) and   *)
(* createChannelPubSub (a Registry: channel name -> Bus, plus the "all"    *)
(* channel), modelled from src/src/index.ts.                               *)
(*                                                                         *)
(* JavaScript strings that the code inspects or orders (subscription ids)  *)
(* are sequences of one-character strings; channel names, which the code   *)
(* only uses as property names, are plain strings.                         *)
(***************************************************************************)
EXTENDS Integers, Sequences, FiniteSets, TLC

VARIABLES
    pubsub,     \* the stand-alone Bus made by createPubSub(): [id, handlers]
    channels,   \* the Registry's own properties: channel name -> Bus
    handles,    \* every handle {id, unsubscribe} returned so far, in order: [ref, id]
    subscribed, \* the channel names Registry.subscribe has been called with
    sub,        \* the caller's variables keeping a handler's latest handle (its place in handles)
    used,       \* the handles whose unsubscribe() has been called (places in handles)
    cancelled,  \* the subscriptions removed and not made again: [ref, key, fn, at]
    made,       \* what the callers asked for: subscribed and not unsubscribed since, [ref, key, fn]
    stack,      \* the publish calls in flight, innermost last
    log,        \* every handler invocation so far, in order
    calls,      \* every publish call so far: what it was given, when, and how it ended
    thrown,     \* how the latest top-level call ended: "none", "Error", "TypeError"
    nops        \* number of top-level calls made

vars == <<pubsub, channels, handles, subscribed, sub, used, cancelled, made, stack, log, calls, thrown, nops>>

----------------------------------------------------------------------------
(* Bounds *)

\* number of top-level calls a behaviour makes
MaxOps == 4
\* number of distinct values crypto.getRandomValues can deliver in the model
MaxRandom == 2

----------------------------------------------------------------------------
(* createUniqId: a Uint32 rendered in base 36 *)

Digit36 ==
    << "0", "1", "2", "3", "4", "5", "6", "7", "8", "9", "a", "b", "c", "d", "e", "f", "g", "h",
       "i", "j", "k", "l", "m", "n", "o", "p", "q", "r", "s", "t", "u", "v", "w", "x", "y", "z" >>

\* Number.prototype.toString(36) of a non-negative integer, as a sequence of characters
RECURSIVE toString36(_)
toString36(n) ==
    IF n < 36 THEN << Digit36[n + 1] >>
    ELSE toString36(n \div 36) \o << Digit36[(n % 36) + 1] >>

\* the values the random source delivers in the model: 18, 36, 54, ... render as
\* "i", "10", "1i", "20", ... so that both integer-like and other keys occur
\* (all of them elements of a Uint32Array)
RandomValues == { 18 * i : i \in 1..MaxRandom }

createUniqId(r) == toString36(r)

----------------------------------------------------------------------------
(* JavaScript objects used as maps: property order and prototype lookup *)

DecimalDigits == << "0", "1", "2", "3", "4", "5", "6", "7", "8", "9" >>

DigitValue(c) == CHOOSE d \in 0..9 : DecimalDigits[d + 1] = c

RECURSIVE DecimalValue(_)
DecimalValue(s) ==
    IF s = << >> THEN 0
    ELSE 10 * DecimalValue(SubSeq(s, 1, Len(s) - 1)) + DigitValue(s[Len(s)])

\* a property key that is an array index: a canonical decimal below 2^32 - 1.  An id has
\* at most 7 characters ("1z141z3"), so keys of 10 digits, where the limit matters, do not occur.
IsArrayIndex(s) ==
    /\ Len(s) >= 1
    /\ Len(s) <= 9
    /\ \A i \in 1..Len(s) : \E d \in 1..10 : DecimalDigits[d] = s[i]
    /\ (Len(s) > 1 => s[1] # "0")

\* the property names every plain object inherits from Object.prototype with a truthy value
ObjectPrototypeKeys ==
    { << "c", "o", "n", "s", "t", "r", "u", "c", "t", "o", "r" >>,
      << "t", "o", "S", "t", "r", "i", "n", "g" >>,
      << "v", "a", "l", "u", "e", "O", "f" >> }

\* the same names, as channel names
ObjectPrototypeNames == { "constructor", "toString", "valueOf", "__proto__" }

\* an object's own properties are a sequence of [key, fn] in property order
OwnKeys(obj) == { obj[i].key : i \in 1..Len(obj) }

IndexOfKey(obj, k) == CHOOSE i \in 1..Len(obj) : obj[i].key = k

GetOwn(obj, k) == obj[IndexOfKey(obj, k)].fn

\* obj[k] is truthy: an own property (handlers are functions) or an inherited one
Truthy(obj, k) == k \in OwnKeys(obj) \/ k \in ObjectPrototypeKeys

\* where a new key goes: array indices first, ascending; other keys after, in creation order
InsertAt(obj, k) ==
    IF IsArrayIndex(k)
    THEN 1 + Cardinality({ i \in 1..Len(obj) :
                 IsArrayIndex(obj[i].key) /\ DecimalValue(obj[i].key) < DecimalValue(k) })
    ELSE Len(obj) + 1

\* obj[k] = f
SetProperty(obj, k, f) ==
    IF k \in OwnKeys(obj)
    THEN [obj EXCEPT ![IndexOfKey(obj, k)] = [key |-> k, fn |-> f]]
    ELSE LET p == InsertAt(obj, k)
         IN SubSeq(obj, 1, p - 1) \o << [key |-> k, fn |-> f] >> \o SubSeq(obj, p, Len(obj))

\* a delete that also drops the properties after obj[k]
DeleteProperty_Truncate(obj, k) ==
    IF k \in OwnKeys(obj)
    THEN SubSeq(obj, 1, IndexOfKey(obj, k) - 1)
    ELSE obj

\* delete obj[k]
DeleteProperty(obj, k) ==
    IF k \in OwnKeys(obj)
    THEN LET p == IndexOfKey(obj, k)
         IN SubSeq(obj, 1, p - 1) \o SubSeq(obj, p + 1, Len(obj))
    ELSE obj

\* Object.values(obj): a new array of the values, in property order.  The key is kept
\* beside each value only to name the subscription in the log.
ObjectValues(obj) == obj

----------------------------------------------------------------------------
(* Handlers: the functions callers subscribe.  A handler is named, and Body   *)
(* says what it does when invoked, after recording the call (vi.fn).          *)

\* the stand-alone Bus, as the place a handle or a publish call belongs to
Standalone == "$pubsub"

Body ==
    [ handler1  |-> [op |-> "none",      target |-> "",         when |-> "",  data |-> ""],
      handler3  |-> [op |-> "none",      target |-> "",         when |-> "",  data |-> ""],
      handler2  |-> [op |-> "cancel",    target |-> "handler2", when |-> "",  data |-> ""],
      canceller |-> [op |-> "cancel",    target |-> "handler3", when |-> "",  data |-> ""],
      adder     |-> [op |-> "subscribe", target |-> "handler3", when |-> "",  data |-> ""],
      thrower   |-> [op |-> "throw",     target |-> "",         when |-> "",  data |-> ""],
      echo      |-> [op |-> "publish",   target |-> "",         when |-> "v", data |-> "w"] ]

Handlers == DOMAIN Body

\* the handlers whose handle the caller keeps in a variable, for a handler to cancel
Kept == { Body[h].target : h \in { g \in Handlers : Body[g].op = "cancel" } }

\* the payloads published
Values == { "v", "w" }

----------------------------------------------------------------------------
(* createPubSub *)

createPubSub(r) == [id |-> createUniqId(r), handlers |-> << >>]

\* a subscribe that stores the handler under the id of the Bus
subscribe_UnderInstanceId(bus, handler, r) ==
    [bus EXCEPT !.handlers = SetProperty(@, bus.id, handler)]

\* subscribe(handler), with r the random value drawn for the subscription id
subscribe(bus, handler, r) ==
    [bus EXCEPT !.handlers = SetProperty(@, createUniqId(r), handler)]

\* a Bus whose unsubscribe forgets to delete
unsubscribe_KeepsEntry(bus, subscriptionId) == bus

\* unsubscribe(subscriptionId)
unsubscribe(bus, subscriptionId) ==
    IF ~Truthy(bus.handlers, subscriptionId)
    THEN bus
    ELSE [bus EXCEPT !.handlers = DeleteProperty(@, subscriptionId)]

\* a publish whose loop stops one handler short
publishSnapshot_StopsShort(bus) ==
    SubSeq(ObjectValues(bus.handlers), 1, Len(bus.handlers) - 1)

\* the array publish(data) iterates
publishSnapshot(bus) == ObjectValues(bus.handlers)

----------------------------------------------------------------------------
(* The program state as one record, so that a call made at top level and the *)
(* same call made from inside a handler are one definition.                  *)

World ==
    [ pubsub |-> pubsub, channels |-> channels, handles |-> handles,
      subscribed |-> subscribed, sub |-> sub,
      used |-> used, cancelled |-> cancelled, made |-> made,
      stack |-> stack, log |-> log, calls |-> calls, thrown |-> thrown ]

GetBus(w, ref) == IF ref = Standalone THEN w.pubsub ELSE w.channels[ref]

PutBus(w, ref, bus) ==
    IF ref = Standalone
    THEN [w EXCEPT !.pubsub = bus]
    ELSE [w EXCEPT !.channels = [c \in DOMAIN w.channels \cup {ref} |->
                                    IF c = ref THEN bus ELSE w.channels[c]]]

\* channels[channel] is truthy: an own property (a Bus) or an inherited one
ChannelTruthy(w, channel) ==
    channel \in DOMAIN w.channels \/ channel \in ObjectPrototypeNames

\* channels[channel] is one of the Registry's own Buses
ChannelIsBus(w, channel) == channel \in DOMAIN w.channels

\* an exception caught by the caller of the innermost call, which then goes on
Throw_InnermostOnly(w, kind) ==
    IF w.stack = << >>
    THEN [w EXCEPT !.thrown = kind]
    ELSE [w EXCEPT !.stack = SubSeq(@, 1, Len(@) - 1),
                   !.thrown = kind,
                   !.calls[w.stack[Len(w.stack)].call].status = "threw"]

\* an exception leaves every call in flight
Throw(w, kind) ==
    [w EXCEPT !.stack = << >>,
              !.thrown = kind,
              !.calls = [n \in DOMAIN w.calls |->
                            IF w.calls[n].status = "running"
                            THEN [w.calls[n] EXCEPT !.status = "threw"]
                            ELSE w.calls[n]]]

\* Bus.subscribe on the Bus at ref; the caller keeps the handle in its variable for handler
BusSubscribe(w, ref, handler, r) ==
    LET handle == [ref |-> ref, id |-> createUniqId(r)]
        w1 == PutBus(w, ref, subscribe(GetBus(w, ref), handler, r))
    IN [w1 EXCEPT !.handles = Append(@, handle),
                  !.sub = [h \in Kept |-> IF h = handler THEN Len(w.handles) + 1 ELSE w.sub[h]],
                  !.cancelled = { c \in @ : ~(c.ref = ref /\ c.key = handle.id) },
                  !.made = { m \in @ : ~(m.ref = ref /\ m.key = handle.id) }
                               \cup {[ref |-> ref, key |-> handle.id, fn |-> handler]}]

\* Bus.unsubscribe on the Bus at ref
BusUnsubscribe(w, ref, subscriptionId) ==
    LET bus == GetBus(w, ref)
        w0 == [w EXCEPT !.made = { m \in @ : ~(m.ref = ref /\ m.key = subscriptionId) }]
        w1 == PutBus(w0, ref, unsubscribe(bus, subscriptionId))
    IN IF subscriptionId \in OwnKeys(bus.handlers)
       THEN [w1 EXCEPT !.cancelled = @ \cup {[ref |-> ref, key |-> subscriptionId,
                                               fn |-> GetOwn(bus.handlers, subscriptionId),
                                               at |-> Len(w.calls)]}]
       ELSE w1

\* a handle that cancels by the id of the Bus instead of the id of the subscription
HandleCancel_InstanceId(w, i) ==
    BusUnsubscribe([w EXCEPT !.used = @ \cup {i}], w.handles[i].ref,
                   GetBus(w, w.handles[i].ref).id)

\* handle.unsubscribe() of the i-th handle returned: () => self.unsubscribe(subscriptionId)
HandleCancel(w, i) ==
    BusUnsubscribe([w EXCEPT !.used = @ \cup {i}], w.handles[i].ref, w.handles[i].id)

\* Bus.publish(data) on the Bus at ref, up to the first handler invocation
BusPublish(w, ref, data, parent) ==
    LET bus == GetBus(w, ref)
        n == Len(w.calls) + 1
    IN [w EXCEPT
          !.calls = Append(@, [kind |-> "publish", ref |-> ref, data |-> data,
                               live |-> bus.handlers, allLive |-> << >>,
                               parent |-> parent, at |-> Len(w.log), status |-> "running"]),
          !.stack = Append(@, [kind |-> "publish", ref |-> ref, data |-> data,
                               snap |-> publishSnapshot(bus), i |-> 1, call |-> n,
                               pc |-> "forEach"])]

----------------------------------------------------------------------------
(* createChannelPubSub *)

getOrCreateChannel(w, channel, r) ==
    IF ~ChannelTruthy(w, channel)
    THEN PutBus(w, channel, createPubSub(r))
    ELSE w

\* subscribe(channel, handler): r1 is drawn for a new Bus's id, r2 for the subscription id
ChannelSubscribe(w, channel, handler, r1, r2) ==
    LET w1 == getOrCreateChannel([w EXCEPT !.subscribed = @ \cup {channel}], channel, r1)
    IN IF ChannelIsBus(w1, channel)
       THEN BusSubscribe(w1, channel, handler, r2)
       ELSE Throw(w1, "TypeError")

\* a Registry whose channels share their subscriptions: the id is removed from every Bus
ChannelUnsubscribe_Everywhere(w, channel, subscriptionId) ==
    [w EXCEPT !.channels = [c \in DOMAIN w.channels |->
                               unsubscribe(w.channels[c], subscriptionId)]]

\* unsubscribe(channel, subscriptionId)
ChannelUnsubscribe(w, channel, subscriptionId) ==
    IF ~ChannelTruthy(w, channel)
    THEN w
    ELSE IF ChannelIsBus(w, channel)
         THEN BusUnsubscribe(w, channel, subscriptionId)
         ELSE Throw(w, "TypeError")

\* a Registry.publish that forgets the "all" channel
ChannelPublish_SkipAll(w, channel, data, parent) ==
    [w EXCEPT
       !.calls = Append(@, [kind |-> "channelPublish", ref |-> channel, data |-> data,
                            live |-> IF channel \in DOMAIN w.channels
                                     THEN w.channels[channel].handlers ELSE << >>,
                            allLive |-> IF "all" \in DOMAIN w.channels
                                        THEN w.channels["all"].handlers ELSE << >>,
                            parent |-> parent, at |-> Len(w.log), status |-> "running"]),
       !.stack = Append(@, [kind |-> "channelPublish", ref |-> channel, data |-> data,
                            snap |-> << >>, i |-> 1, call |-> Len(w.calls) + 1, pc |-> "all"])]

\* publish(channel, data), lines 96-97: up to the first handler invocation
ChannelPublish(w, channel, data, parent) ==
    LET n == Len(w.calls) + 1
        w1 == [w EXCEPT
                 !.calls = Append(@, [kind |-> "channelPublish", ref |-> channel, data |-> data,
                                      live |-> IF ChannelIsBus(w, channel)
                                               THEN w.channels[channel].handlers ELSE << >>,
                                      allLive |-> IF ChannelIsBus(w, "all")
                                                  THEN w.channels["all"].handlers ELSE << >>,
                                      parent |-> parent, at |-> Len(w.log), status |-> "running"]),
                 !.stack = Append(@, [kind |-> "channelPublish", ref |-> channel, data |-> data,
                                      snap |-> << >>, i |-> 1, call |-> n, pc |-> "all"])]
    IN IF ChannelTruthy(w1, "all")
       THEN BusPublish(w1, "all", data, n)
       ELSE w1

\* a Registry.publish that falls back on some other channel's Bus when channel has none
ChannelPublishRest_Fallback(w, f) ==
    LET w1 == [w EXCEPT !.stack[Len(w.stack)].pc = "channel"]
        others == DOMAIN w.channels \ {"all", f.ref}
    IN IF f.ref \in DOMAIN w1.channels
       THEN BusPublish(w1, f.ref, f.data, f.call)
       ELSE IF others # {}
            THEN BusPublish(w1, CHOOSE c \in others : TRUE, f.data, f.call)
            ELSE w1

\* a Registry.publish that serves "all" and forgets the channel's own Bus
ChannelPublishRest_OnlyAll(w, f) ==
    [w EXCEPT !.stack[Len(w.stack)].pc = "channel"]

\* a Registry.publish that serves "all" once more after the channel's own Bus
ChannelPublishRest_AllLast(w, f) ==
    LET w1 == [w EXCEPT !.stack[Len(w.stack)].pc = "channel"]
        w2 == IF ChannelIsBus(w1, "all") THEN BusPublish(w1, "all", f.data, f.call) ELSE w1
    IN IF ChannelIsBus(w2, f.ref)
       THEN BusPublish(w2, f.ref, f.data, f.call)
       ELSE w2

\* publish(channel, data), lines 98-100, f being the call's frame
ChannelPublishRest(w, f) ==
    LET w1 == [w EXCEPT !.stack[Len(w.stack)].pc = "channel"]
    IN IF ~ChannelTruthy(w1, f.ref)
       THEN w1
       ELSE IF ChannelIsBus(w1, f.ref)
            THEN BusPublish(w1, f.ref, f.data, f.call)
            ELSE Throw(w1, "TypeError")

----------------------------------------------------------------------------
(* Control: every call runs until the next handler invocation is due *)

Pop(w) ==
    LET f == w.stack[Len(w.stack)]
    IN [w EXCEPT !.stack = SubSeq(@, 1, Len(@) - 1),
                 !.calls[f.call].status = "returned"]

RECURSIVE Settle(_)
Settle(w) ==
    IF w.stack = << >> THEN w
    ELSE LET f == w.stack[Len(w.stack)]
         IN IF f.kind = "publish"
            THEN IF f.i <= Len(f.snap) THEN w ELSE Settle(Pop(w))
            ELSE IF f.pc = "all"
                 THEN Settle(ChannelPublishRest(w, f))
                 ELSE Settle(Pop(w))

\* what the handler does after recording its call, f being the frame that invoked it
RunBody(w, f, handler, r) ==
    LET b == Body[handler]
    IN CASE b.op = "none" -> w
         [] b.op = "cancel" ->
               IF w.sub[b.target] = 0
               THEN w
               ELSE HandleCancel(w, w.sub[b.target])
         [] b.op = "subscribe" ->
               IF f.ref = Standalone
               THEN BusSubscribe(w, f.ref, b.target, r)
               ELSE ChannelSubscribe(w, f.ref, b.target, r, r)
         [] b.op = "throw" -> Throw(w, "Error")
         [] b.op = "publish" ->
               IF f.data # b.when
               THEN w
               ELSE IF f.ref = Standalone
                    THEN BusPublish(w, f.ref, b.data, f.call)
                    ELSE ChannelPublish(w, f.ref, b.data, f.call)

\* a publish that walks the live map: a handler removed meanwhile is passed over
Invoke_Live(w, r) ==
    LET f == w.stack[Len(w.stack)]
        e == f.snap[f.i]
        w0 == [w EXCEPT !.stack[Len(w.stack)].i = f.i + 1]
        w1 == [w0 EXCEPT !.log = Append(@, [call |-> f.call, ref |-> f.ref, key |-> e.key,
                                            fn |-> e.fn, data |-> f.data])]
    IN IF e.key \in OwnKeys(GetBus(w, f.ref).handlers)
       THEN Settle(RunBody(w1, f, e.fn, r))
       ELSE Settle(w0)

\* a publish whose re-entrant calls wait: the outermost call with handlers left goes first
Invoke_OuterFirst(w, r) ==
    LET d == CHOOSE j \in 1..Len(w.stack) :
                 /\ w.stack[j].kind = "publish"
                 /\ w.stack[j].i <= Len(w.stack[j].snap)
                 /\ \A q \in 1..(j - 1) :
                        ~(w.stack[q].kind = "publish" /\ w.stack[q].i <= Len(w.stack[q].snap))
        f == w.stack[d]
        e == f.snap[f.i]
        w1 == [w EXCEPT !.stack[d].i = f.i + 1,
                        !.log = Append(@, [call |-> f.call, ref |-> f.ref, key |-> e.key,
                                           fn |-> e.fn, data |-> f.data])]
    IN Settle(RunBody(w1, f, e.fn, r))

\* a publish that catches what a handler throws and goes on with the next handler
Invoke_Caught(w, r) ==
    LET f == w.stack[Len(w.stack)]
        e == f.snap[f.i]
        w1 == [w EXCEPT !.stack[Len(w.stack)].i = f.i + 1,
                        !.log = Append(@, [call |-> f.call, ref |-> f.ref, key |-> e.key,
                                           fn |-> e.fn, data |-> f.data])]
    IN IF Body[e.fn].op = "throw"
       THEN Settle(w1)
       ELSE Settle(RunBody(w1, f, e.fn, r))

\* forEach(handler => handler(data)): the next handler of the innermost publish call
Invoke(w, r) ==
    LET f == w.stack[Len(w.stack)]
        e == f.snap[f.i]
        w1 == [w EXCEPT !.stack[Len(w.stack)].i = f.i + 1,
                        !.log = Append(@, [call |-> f.call, ref |-> f.ref, key |-> e.key,
                                           fn |-> e.fn, data |-> f.data])]
    IN Settle(RunBody(w1, f, e.fn, r))

Commit(w) ==
    /\ pubsub' = w.pubsub
    /\ channels' = w.channels
    /\ handles' = w.handles
    /\ subscribed' = w.subscribed
    /\ sub' = w.sub
    /\ used' = w.used
    /\ cancelled' = w.cancelled
    /\ made' = w.made
    /\ stack' = w.stack
    /\ log' = w.log
    /\ calls' = w.calls
    /\ thrown' = w.thrown

\* a call from outside any handler
TopLevel == stack = << >> /\ nops < MaxOps

Start == [World EXCEPT !.thrown = "none"]

----------------------------------------------------------------------------
(* Actions on the stand-alone Bus *)

\* subscribe(handler) with one of the handlers hs
PubSubSubscribeAny(hs) ==
    /\ TopLevel
    /\ \E h \in hs, r \in RandomValues :
          Commit(BusSubscribe(Start, Standalone, h, r))
    /\ nops' = nops + 1

\* the handlers that return: they record the call and may subscribe or cancel
BusHandlers == { "handler1", "handler2", "handler3", "canceller", "adder" }

PubSubSubscribe == PubSubSubscribeAny(BusHandlers)

\* callers whose handlers may publish on the Bus that invoked them
ReentrantHandlers == { "handler1", "handler3", "adder", "echo" }

PubSubSubscribeReentrant == PubSubSubscribeAny(ReentrantHandlers)

\* callers whose handlers may throw
ThrowingHandlers == { "handler1", "handler3", "canceller", "thrower" }

PubSubSubscribeThrowing == PubSubSubscribeAny(ThrowingHandlers)

\* ids a caller may pass: any id the generator can produce, an inherited name, an unknown one
CallerIds ==
    { createUniqId(r) : r \in RandomValues }
        \cup { << "c", "o", "n", "s", "t", "r", "u", "c", "t", "o", "r" >>, << "i", "d" >> }

PubSubUnsubscribeOf(id) ==
    /\ TopLevel
    /\ Commit(BusUnsubscribe(Start, Standalone, id))
    /\ nops' = nops + 1

PubSubUnsubscribe == \E id \in CallerIds : PubSubUnsubscribeOf(id)

\* handle.unsubscribe() of a handle returned earlier, by the Bus or by the Registry
HandleUnsubscribeOf(i) ==
    /\ TopLevel
    /\ Commit(HandleCancel(Start, i))
    /\ nops' = nops + 1

HandleUnsubscribe == \E i \in 1..Len(handles) : HandleUnsubscribeOf(i)

PubSubPublish ==
    /\ TopLevel
    /\ \E v \in Values : Commit(Settle(BusPublish(Start, Standalone, v, 0)))
    /\ nops' = nops + 1

\* the publish call in flight invokes its next handler
Deliver ==
    /\ stack # << >>
    /\ \E r \in RandomValues : Commit(Invoke(World, r))
    /\ UNCHANGED nops

----------------------------------------------------------------------------
(* Actions on the Registry *)

Channels == { "all", "c1", "c2", "constructor" }

\* the handlers callers subscribe to channels
RegistryHandlers == { "handler1", "handler3", "thrower" }

RegistrySubscribe ==
    /\ TopLevel
    /\ \E c \in Channels, h \in RegistryHandlers, r1 \in RandomValues, r2 \in RandomValues :
          Commit(ChannelSubscribe(Start, c, h, r1, r2))
    /\ nops' = nops + 1

RegistryUnsubscribeOf(c, id) ==
    /\ TopLevel
    /\ Commit(ChannelUnsubscribe(Start, c, id))
    /\ nops' = nops + 1

RegistryUnsubscribe == \E c \in Channels, id \in CallerIds : RegistryUnsubscribeOf(c, id)

RegistryPublishOf(c, v) ==
    /\ TopLevel
    /\ Commit(Settle(ChannelPublish(Start, c, v, 0)))
    /\ nops' = nops + 1

RegistryPublish == \E c \in Channels, v \in Values : RegistryPublishOf(c, v)

----------------------------------------------------------------------------
(* Specifications *)

\* no Bus made by the caller
NotCreated == [id |-> << >>, handlers |-> << >>]

\* what both constructors leave alike
InitRest ==
    /\ channels = << >>
    /\ handles = << >>
    /\ subscribed = {}
    /\ sub = [h \in Kept |-> 0]
    /\ used = {}
    /\ cancelled = {}
    /\ made = {}
    /\ stack = << >>
    /\ log = << >>
    /\ calls = << >>
    /\ thrown = "none"
    /\ nops = 0

\* after createChannelPubSub(): no channel yet
Init == pubsub = NotCreated /\ InitRest

\* after createPubSub(): the Bus has drawn its id and has no subscription
BusInit == (\E r \in RandomValues : pubsub = createPubSub(r)) /\ InitRest

\* the Registry
Next ==
    \/ RegistrySubscribe
    \/ RegistryUnsubscribe
    \/ RegistryPublish
    \/ HandleUnsubscribe
    \/ Deliver

Spec == Init /\ [][Next]_vars

\* the stand-alone Bus
BusNext ==
    \/ PubSubSubscribe
    \/ PubSubUnsubscribe
    \/ PubSubPublish
    \/ HandleUnsubscribe
    \/ Deliver

BusSpec == BusInit /\ [][BusNext]_vars

\* the stand-alone Bus, cancelled through the handles only
HandleNext ==
    \/ PubSubSubscribe
    \/ PubSubPublish
    \/ HandleUnsubscribe
    \/ Deliver

HandleSpec == BusInit /\ [][HandleNext]_vars

\* the stand-alone Bus with a handler that throws
ThrowNext ==
    \/ PubSubSubscribeThrowing
    \/ PubSubPublish
    \/ HandleUnsubscribe
    \/ Deliver

ThrowSpec == BusInit /\ [][ThrowNext]_vars

\* the stand-alone Bus with a handler that publishes when invoked
ReentrantNext ==
    \/ PubSubSubscribeReentrant
    \/ PubSubPublish
    \/ HandleUnsubscribe
    \/ Deliver

ReentrantSpec == BusInit /\ [][ReentrantNext]_vars

\* a caller using a Bus and a Registry
BothNext ==
    \/ PubSubSubscribe
    \/ PubSubUnsubscribe
    \/ PubSubPublish
    \/ RegistrySubscribe
    \/ RegistryUnsubscribe
    \/ RegistryPublish
    \/ HandleUnsubscribe
    \/ Deliver

BothSpec == BusInit /\ [][BothNext]_vars

----------------------------------------------------------------------------
(* Reading the record of calls *)

\* the places in log of the invocations made by Bus.publish call n
InvocationsOf(n) == { k \in DOMAIN log : log[k].call = n }

\* the places in log of the invocations made for Registry.publish call n, on the Bus at ref
DeliveredBy(n, ref) ==
    { k \in DOMAIN log : calls[log[k].call].parent = n /\ log[k].ref = ref }

\* how often Registry.publish call n invoked subscription e of the Bus at ref with value v
TimesDelivered(n, ref, e, v) ==
    Cardinality({ k \in DeliveredBy(n, ref) :
                    log[k].key = e.key /\ log[k].fn = e.fn /\ log[k].data = v })

RegistryCalls == { n \in DOMAIN calls : calls[n].kind = "channelPublish" }

BusCalls == { n \in DOMAIN calls : calls[n].kind = "publish" }

\* the handlers subscribed to channel c
SubscribedTo(c) ==
    IF c \in DOMAIN channels
    THEN { channels[c].handlers[i].fn : i \in 1..Len(channels[c].handlers) }
    ELSE {}

----------------------------------------------------------------------------
(* Claims *)

\* C1 (as claimed): when Registry.publish("all", v) returns, every subscription that the
\* "all" Bus held when the call was made has been invoked exactly once with v by that call.
C1_AllPublishedOnce ==
    \A n \in RegistryCalls :
        (calls[n].ref = "all" /\ calls[n].status = "returned") =>
            \A i \in 1..Len(calls[n].allLive) :
                TimesDelivered(n, "all", calls[n].allLive[i], calls[n].data) = 1

\* Registry.publish call n has ended, and no handler of "all" has thrown in it
AllDelivered(n) ==
    /\ calls[n].status # "running"
    /\ \A m \in BusCalls :
          (calls[m].parent = n /\ calls[m].ref = "all") => calls[m].status = "returned"

\* C2: when Registry.publish(c, v) with c other than "all" has ended, no handler of "all"
\* having thrown, every subscription that the "all" Bus held when the call was made has
\* been invoked exactly once with v by that call, and the "all" Bus has invoked nothing
\* else for it, whether or not channels[c] exists.
C2_AllReceivesEveryMessage ==
    \A n \in RegistryCalls :
        (calls[n].ref # "all" /\ AllDelivered(n)) =>
            /\ \A i \in 1..Len(calls[n].allLive) :
                   TimesDelivered(n, "all", calls[n].allLive[i], calls[n].data) = 1
            /\ Cardinality(DeliveredBy(n, "all")) = Len(calls[n].allLive)

\* C2 witness: a publish to a channel that has no Bus has returned, "all" holding two subscriptions
C2_Witness ==
    \E n \in RegistryCalls :
        /\ calls[n].ref = "c1"
        /\ calls[n].status = "returned"
        /\ "c1" \notin DOMAIN channels
        /\ Len(calls[n].allLive) = 2
        /\ Cardinality(DeliveredBy(n, "all")) = 2

\* h is subscribed to channel c and to no other channel
SubscribedOnlyTo(h, c) ==
    /\ h \in SubscribedTo(c)
    /\ \A d \in DOMAIN channels \ {c} : h \notin SubscribedTo(d)

\* C3: no step of a Registry.publish(c1, v) invokes a handler that is subscribed only to a
\* channel c2 other than c1 and other than "all".
C3_ChannelIsolation ==
    [][ \A k \in (Len(log) + 1)..Len(log') :
           LET e == log'[k]
               n == calls'[e.call].parent
           IN n # 0 =>
                \A c2 \in DOMAIN channels \ {"all", calls'[n].ref} :
                    ~SubscribedOnlyTo(e.fn, c2) ]_vars

\* C3 witness: a publish to "c1" has invoked the handler of "c1" while "c2" and "all" have
\* subscribers of their own
C3_Witness ==
    /\ \E n \in RegistryCalls :
          /\ calls[n].ref = "c1"
          /\ calls[n].status = "returned"
          /\ DeliveredBy(n, "c1") # {}
    /\ \E h \in Handlers : SubscribedOnlyTo(h, "c2")
    /\ "all" \in DOMAIN channels

\* the handlers that neither throw nor call back into the Bus
Plain(h) == Body[h].op = "none"

\* how often Bus.publish call n invoked subscription e with value v
TimesInvoked(n, e, v) ==
    Cardinality({ k \in InvocationsOf(n) :
                    log[k].key = e.key /\ log[k].fn = e.fn /\ log[k].data = v })

\* C4: when Bus.publish(v) returns on a Bus whose subscriptions were h1..hn, all of them
\* handlers that neither throw nor call the Bus, each hi has been invoked exactly once
\* with v by the call, and the call has invoked nothing else.
C4_PublishInvokesEachOnce ==
    \A n \in BusCalls :
        ( /\ calls[n].ref = Standalone
          /\ calls[n].status = "returned"
          /\ \A i \in 1..Len(calls[n].live) : Plain(calls[n].live[i].fn) ) =>
            /\ \A i \in 1..Len(calls[n].live) :
                   TimesInvoked(n, calls[n].live[i], calls[n].data) = 1
            /\ Cardinality(InvocationsOf(n)) = Len(calls[n].live)
            /\ \A k \in DOMAIN log : calls[log[k].call].parent = n => FALSE

\* C4 witness: a publish on a Bus with two plain subscribers has returned, and so has one
\* on a Bus with none
C4_Witness ==
    /\ \E n \in BusCalls :
          /\ calls[n].ref = Standalone
          /\ calls[n].status = "returned"
          /\ Len(calls[n].live) = 2
          /\ \A i \in 1..2 : Plain(calls[n].live[i].fn)
          /\ calls[n].live[1].fn # calls[n].live[2].fn
    /\ \E n \in BusCalls :
          /\ calls[n].ref = Standalone
          /\ calls[n].status = "returned"
          /\ Len(calls[n].live) = 0

\* C5: a subscription that has been cancelled (by its handle, by unsubscribe(id) on the
\* Bus, or by unsubscribe(channel, id) on the Registry) and not been made again is invoked
\* by no publish call that starts after the cancellation.
C5_CancelledNeverInvoked ==
    \A c \in cancelled : \A k \in DOMAIN log :
        log[k].call > c.at =>
            ~(log[k].ref = c.ref /\ log[k].key = c.key /\ log[k].fn = c.fn)

\* C5 witness: a subscription of the Bus has been cancelled by its handle, another by
\* unsubscribe(id) or by a handler, and a publish made after that has invoked a subscriber
C5_Witness ==
    \E c \in cancelled :
        /\ c.ref = Standalone
        /\ \E i \in used : handles[i].id = c.key
        /\ \E k \in DOMAIN log : log[k].call > c.at

\* C6: when Bus.publish(v) returns, the subscriptions it has invoked are exactly those the
\* Bus held when the call was made, each once with v: a subscription made by a handler
\* during the call is not invoked by it, one removed by a handler during the call still is.
C6_SnapshotDelivery ==
    \A n \in BusCalls :
        (calls[n].ref = Standalone /\ calls[n].status = "returned") =>
            /\ \A i \in 1..Len(calls[n].live) :
                   TimesInvoked(n, calls[n].live[i], calls[n].data) = 1
            /\ Cardinality(InvocationsOf(n)) = Len(calls[n].live)

\* C6 witness: one publish call has invoked a handler that subscribed another handler, and
\* one has invoked handler3 after canceller had removed handler3's subscription in that call
C6_Witness ==
    /\ \E n \in BusCalls :
          /\ calls[n].status = "returned"
          /\ \E k \in InvocationsOf(n) : log[k].fn = "adder"
    /\ \E n \in BusCalls : \E c \in cancelled :
          /\ calls[n].status = "returned"
          /\ c.at = n
          /\ c.fn = "handler3"
          /\ \E k1, k2 \in InvocationsOf(n) :
                /\ k1 < k2
                /\ log[k1].fn = "canceller"
                /\ log[k2].fn = "handler3"
                /\ log[k2].key = c.key

\* the publish calls made from outside any handler
TopLevelCalls == { n \in DOMAIN calls : calls[n].parent = 0 }

\* only handler1 and handler2 (which cancels its own subscription when invoked) have been
\* subscribed, each once, and every call since has been a publish, all of which have returned
OnlyHandler1AndHandler2 ==
    /\ stack = << >>
    /\ TopLevelCalls # {}
    /\ nops = 2 + Cardinality(TopLevelCalls)
    /\ Len(calls[1].live) = 2
    /\ { calls[1].live[i].fn : i \in 1..2 } = { "handler1", "handler2" }

\* C7: with handler1 and the self-cancelling handler2 subscribed to one Bus, after any
\* number of publish calls handler2 has been invoked exactly once, by the first call, and
\* handler1 exactly once by every call.
C7_SelfCancelFiresOnce ==
    OnlyHandler1AndHandler2 =>
        /\ Cardinality({ k \in DOMAIN log : log[k].fn = "handler2" }) = 1
        /\ \A k \in DOMAIN log : log[k].fn = "handler2" => log[k].call = 1
        /\ \A n \in TopLevelCalls :
              Cardinality({ k \in InvocationsOf(n) :
                              log[k].fn = "handler1" /\ log[k].data = calls[n].data }) = 1

\* C7 witness: two successive publish calls have returned
C7_Witness == OnlyHandler1AndHandler2 /\ Cardinality(TopLevelCalls) = 2

\* C8 (as claimed): the ids returned by the subscribe calls on the Bus differ from one
\* another and from the id of the Bus.
C8_IdsDistinct ==
    \A i, j \in DOMAIN handles :
        (handles[i].ref = Standalone /\ handles[j].ref = Standalone) =>
            /\ (i # j => handles[i].id # handles[j].id)
            /\ handles[i].id # pubsub.id

\* C9 (as claimed): calling unsubscribe() of a handle whose unsubscribe() has been called
\* before leaves the subscriptions of the Bus as they are, and does not fail.
C9_RepeatedCancelNoEffect ==
    [][ \A i \in used :
           HandleUnsubscribeOf(i) =>
               (pubsub'.handlers = pubsub.handlers /\ thrown' = "none") ]_vars

\* C10: Bus.unsubscribe(id) does not fail; with id not a live subscription it leaves the
\* subscriptions as they are; with id live it removes that entry and leaves every other
\* subscription in place, under its key, with its handler, in the same order.
C10_UnsubscribeRemovesExactlyOne ==
    [][ \A id \in CallerIds :
           PubSubUnsubscribeOf(id) =>
               LET before == pubsub.handlers
                   after == pubsub'.handlers
                   kept == SelectSeq(before, LAMBDA e : e.key # id)
               IN /\ thrown' = "none"
                  /\ pubsub'.id = pubsub.id
                  /\ after = kept
                  /\ (id \notin OwnKeys(before) => after = before)
                  /\ (id \in OwnKeys(before) => Len(after) = Len(before) - 1) ]_vars

\* C10 witness: unsubscribe(id) has removed a live subscription and left another in place
C10_Witness ==
    /\ used = {}
    /\ \E c \in cancelled : c.ref = Standalone /\ c.at = Len(calls)
    /\ Len(pubsub.handlers) >= 1

\* C11 (as claimed): Registry.unsubscribe(channel, id) with a channel that subscribe has
\* never been called with, or with an id that is no subscription of the channel's Bus,
\* does not fail, removes no subscription and creates no channel entry.
C11_UnsubscribeUnknownNoOp ==
    [][ \A c \in Channels, id \in CallerIds :
           ( /\ RegistryUnsubscribeOf(c, id)
             /\ \/ c \notin subscribed
                \/ (c \in DOMAIN channels /\ id \notin OwnKeys(channels[c].handlers)) ) =>
               (thrown' = "none" /\ channels' = channels) ]_vars

\* the place in the snapshot of Bus.publish call n of the first handler that throws
FirstThrower(n) ==
    CHOOSE p \in 1..Len(calls[n].live) :
        /\ Body[calls[n].live[p].fn].op = "throw"
        /\ \A q \in 1..(p - 1) : Body[calls[n].live[q].fn].op # "throw"

\* C12: the step in which a handler throws during Bus.publish ends the call with the
\* failure at the caller and leaves the subscriptions of the Bus as they are; and a
\* publish call ended that way has invoked its snapshot up to the throwing handler, each
\* once, and none of the handlers after it.
C12_ThrowAbortsDelivery ==
    /\ [][ ( /\ Len(log') = Len(log) + 1
             /\ Body[log'[Len(log')].fn].op = "throw" ) =>
               /\ thrown' = "Error"
               /\ stack' = << >>
               /\ calls'[log'[Len(log')].call].status = "threw"
               /\ pubsub'.handlers = pubsub.handlers ]_vars
    /\ [](\A n \in BusCalls :
             (calls[n].ref = Standalone /\ calls[n].status = "threw") =>
                 /\ Cardinality(InvocationsOf(n)) = FirstThrower(n)
                 /\ \A p \in 1..FirstThrower(n) :
                        TimesInvoked(n, calls[n].live[p], calls[n].data) = 1)

\* C12 witness: a publish call was ended by the first handler of its snapshot throwing;
\* the second handler has not been invoked, and both are still subscribed
C12_Witness ==
    \E n \in BusCalls :
        /\ calls[n].ref = Standalone
        /\ calls[n].status = "threw"
        /\ n = Len(calls)
        /\ Len(calls[n].live) = 2
        /\ FirstThrower(n) = 1
        /\ Cardinality(InvocationsOf(n)) = 1
        /\ thrown = "Error"
        /\ pubsub.handlers = calls[n].live

\* the elements of a sequence
Range(s) == { s[i] : i \in 1..Len(s) }

\* the values subscription e of channel c has been invoked with, in order
Received(c, e) ==
    LET mine == SelectSeq(log, LAMBDA x : x.ref = c /\ x.key = e.key /\ x.fn = e.fn)
    IN [i \in 1..Len(mine) |-> mine[i].data]

\* the values published while subscription e of channel c was live, in call order: those
\* published to c, or to any channel when c is "all"
Published(c, e) ==
    LET mine == SelectSeq(calls, LAMBDA x :
                    /\ x.kind = "channelPublish"
                    /\ IF c = "all" THEN e \in Range(x.allLive)
                                    ELSE x.ref = c /\ e \in Range(x.live))
    IN [i \in 1..Len(mine) |-> mine[i].data]

\* every subscription a Registry.publish call has met or invoked, with its channel
Subscriptions ==
    { [c |-> log[k].ref, e |-> [key |-> log[k].key, fn |-> log[k].fn]] : k \in DOMAIN log }
        \cup UNION { { [c |-> calls[n].ref, e |-> x] : x \in Range(calls[n].live) }
                        \cup { [c |-> "all", e |-> x] : x \in Range(calls[n].allLive) } :
                     n \in RegistryCalls }

\* every publish so far was made at top level to a channel other than "all", has ended,
\* and no handler has thrown
OnlyChannelPublishes ==
    /\ stack = << >>
    /\ \A n \in DOMAIN calls : calls[n].kind = "channelPublish" => calls[n].ref # "all"
    /\ \A k \in DOMAIN log : Body[log[k].fn].op # "throw"

\* C13: after any sequence of top-level Registry.publish calls to channels other than
\* "all", a handler subscribed to channel c has received exactly the values published to
\* c while it was subscribed, in call order, and a handler subscribed to "all" exactly the
\* values published to any channel while it was subscribed, in call order.
C13_ReceivedInCallOrder ==
    OnlyChannelPublishes =>
        \A s \in Subscriptions : Received(s.c, s.e) = Published(s.c, s.e)

\* C13 witness: "v" was published to "c1" and then "w" to "c2"; the handler of "c1" has
\* received "v" only, the handler of "all" has received "v" and then "w"
C13_Witness ==
    /\ OnlyChannelPublishes
    /\ Len(calls) >= 2
    /\ calls[1].ref = "c1"
    /\ \E s \in Subscriptions : s.c = "c1" /\ Received(s.c, s.e) = << "v" >>
    /\ \E s \in Subscriptions : s.c = "all" /\ Received(s.c, s.e) = << "v", "w" >>

\* the Bus of channel c2 is in the next state what it is now
ChannelKept(c2) == c2 \in DOMAIN channels' /\ channels'[c2] = channels[c2]

\* C14: no step that changes the subscriptions of a channel c2 is a cancellation on another
\* channel c1, by a handle of c1 or by Registry.unsubscribe(c1, id) with any id (also one
\* that is a subscription of c2): cancelling on c1 leaves every other channel as it is; and every Registry.publish(c, v), c
\* other than "all", that returns has invoked each subscription of c exactly once with v.
C14_ChannelsIndependent ==
    /\ [][ \A c2 \in DOMAIN channels :
              ~ChannelKept(c2) =>
                  /\ \A i \in 1..Len(handles) :
                        handles[i].ref # c2 => ~HandleUnsubscribeOf(i)
                  /\ \A c1 \in Channels \ {c2}, id \in CallerIds :
                        ~RegistryUnsubscribeOf(c1, id) ]_vars
    /\ [](\A n \in RegistryCalls :
             (calls[n].ref # "all" /\ calls[n].status = "returned") =>
                 \A i \in 1..Len(calls[n].live) :
                     TimesDelivered(n, calls[n].ref, calls[n].live[i], calls[n].data) = 1)

\* C14 witness: a subscription of "c1" was cancelled while "c2" held a subscription under
\* the same id, and a later publish to "c2" has invoked the subscription of "c2"
C14_Witness ==
    \E c \in cancelled : \E n \in RegistryCalls :
        /\ c.ref = "c1"
        /\ calls[n].ref = "c2"
        /\ calls[n].status = "returned"
        /\ n > c.at
        /\ \E k \in DeliveredBy(n, "c2") : log[k].key = c.key

\* the Bus.publish calls that Registry.publish call n made on the Bus at ref
PublishesOf(n, ref) == { m \in BusCalls : calls[m].parent = n /\ calls[m].ref = ref }

\* C15: in every Registry.publish(c, v) with c other than "all", every invocation of a
\* handler of "all" comes before every invocation of a handler of c, and the publish on
\* the "all" Bus has returned before the first handler of c is invoked.
C15_AllBeforeChannel ==
    \A n \in RegistryCalls :
        calls[n].ref # "all" =>
            \A k2 \in DeliveredBy(n, calls[n].ref) :
                /\ \A k1 \in DeliveredBy(n, "all") : k1 < k2
                /\ \A m \in PublishesOf(n, "all") :
                       m < log[k2].call /\ calls[m].status = "returned"

\* C15 witness: one publish to "c1" has invoked a handler of "all" and a handler of "c1"
C15_Witness ==
    \E n \in RegistryCalls :
        /\ calls[n].ref = "c1"
        /\ DeliveredBy(n, "all") # {}
        /\ DeliveredBy(n, "c1") # {}

\* C16 (as claimed): the channel names that have an entry are exactly the names subscribe
\* has been called with (so only subscribe makes an entry, and none is ever removed); and
\* publish(c, v) with no Bus for c and none for "all" invokes no handler, changes nothing
\* and returns.
C16_EntryIffSubscribed ==
    /\ [](DOMAIN channels = subscribed)
    /\ [][ \A c \in Channels, v \in Values :
              ( /\ c \notin DOMAIN channels
                /\ "all" \notin DOMAIN channels
                /\ RegistryPublishOf(c, v) ) =>
                  (log' = log /\ channels' = channels /\ thrown' = "none") ]_vars

\* C17: every key of the handlers of the Bus is the id of a handle that subscribe on this
\* Bus has returned, has not been passed to unsubscribe since it was last returned, and
\* maps to the handler passed to that subscribe call; and neither the start of a publish
\* call nor the invocation of a handler that calls nothing changes the handlers.
C17_KeysAreLiveSubscriptions ==
    /\ [](\A p \in 1..Len(pubsub.handlers) :
             LET e == pubsub.handlers[p]
             IN /\ \E j \in DOMAIN handles :
                       handles[j].ref = Standalone /\ handles[j].id = e.key
                /\ [ref |-> Standalone, key |-> e.key, fn |-> e.fn] \in made
                /\ \A q \in 1..Len(pubsub.handlers) :
                       pubsub.handlers[q].key = e.key => q = p)
    /\ [][ /\ (Len(calls') = Len(calls) + 1 /\ log' = log) =>
                  pubsub'.handlers = pubsub.handlers
           /\ (Len(log') = Len(log) + 1 /\ Plain(log'[Len(log')].fn)) =>
                  pubsub'.handlers = pubsub.handlers ]_vars

\* C17 witness: after two subscribe calls, a publish that invoked both handlers, and an
\* unsubscribe of one of them, the Bus holds the other subscription
C17_Witness ==
    /\ Len(pubsub.handlers) = 1
    /\ \E c \in cancelled : c.ref = Standalone /\ c.fn # pubsub.handlers[1].fn
    /\ \E n \in BusCalls :
          /\ calls[n].status = "returned"
          /\ Cardinality(InvocationsOf(n)) = 2

\* C18: the step in which a handler of "all" throws during Registry.publish(c, v), c
\* other than "all", ends the call with the failure at the caller and leaves every
\* channel's subscriptions as they are; and a call ended that way has made no publish on
\* the Bus of c and invoked no handler of c.
C18_AllThrowSkipsChannel ==
    /\ [][ ( /\ Len(log') = Len(log) + 1
             /\ log'[Len(log')].ref = "all"
             /\ Body[log'[Len(log')].fn].op = "throw"
             /\ calls'[calls'[log'[Len(log')].call].parent].ref # "all" ) =>
               /\ thrown' = "Error"
               /\ stack' = << >>
               /\ calls'[calls'[log'[Len(log')].call].parent].status = "threw"
               /\ channels' = channels ]_vars
    /\ [](\A n \in RegistryCalls :
             ( /\ calls[n].ref # "all"
               /\ \E m \in PublishesOf(n, "all") : calls[m].status = "threw" ) =>
                 /\ calls[n].status = "threw"
                 /\ PublishesOf(n, calls[n].ref) = {}
                 /\ DeliveredBy(n, calls[n].ref) = {})

\* C18 witness: the latest call, a publish to "c1", was ended by a handler of "all"
\* throwing; "c1" holds the subscription it held when the call was made, not invoked
C18_Witness ==
    \E n \in RegistryCalls :
        /\ calls[n].ref = "c1"
        /\ \E m \in PublishesOf(n, "all") : calls[m].status = "threw" /\ m = Len(calls)
        /\ thrown = "Error"
        /\ Len(calls[n].live) >= 1
        /\ channels["c1"].handlers = calls[n].live
        /\ DeliveredBy(n, "c1") = {}

\* the publish calls made on the Bus by a handler the Bus was invoking
NestedCalls == { m \in BusCalls : calls[m].ref = Standalone /\ calls[m].parent # 0 }

\* Bus.publish call n has returned having invoked every subscription of its snapshot
\* exactly once with its value, and nothing else
DeliveredOnce(n) ==
    /\ \A i \in 1..Len(calls[n].live) :
           TimesInvoked(n, calls[n].live[i], calls[n].data) = 1
    /\ Cardinality(InvocationsOf(n)) = Len(calls[n].live)

\* C19: when a handler invoked by Bus.publish(v) calls publish(w) on the same Bus, the
\* inner call has returned, having invoked every subscription live at its start once with
\* w, before the outer call invokes its next handler; so every invocation the outer call
\* makes after the inner call began (the handlers later in its snapshot, with v) comes
\* after all invocations of the inner call (with w).  Each call still invokes every
\* subscription of its own snapshot exactly once, and a returned publish("v") has made
\* one inner call for each publishing handler in its snapshot.
C19_ReentrantDepthFirst ==
    /\ \A m \in NestedCalls :
          LET n == calls[m].parent
          IN /\ \A k \in InvocationsOf(n) :
                    k > calls[m].at =>
                        /\ calls[m].status = "returned"
                        /\ \A k2 \in InvocationsOf(m) : k2 < k
             /\ calls[m].status = "returned" => DeliveredOnce(m)
    /\ \A n \in BusCalls :
          (calls[n].ref = Standalone /\ calls[n].status = "returned") =>
              /\ DeliveredOnce(n)
              /\ Cardinality({ m \in NestedCalls : calls[m].parent = n })
                    = Cardinality({ i \in 1..Len(calls[n].live) :
                                      /\ Body[calls[n].live[i].fn].op = "publish"
                                      /\ Body[calls[n].live[i].fn].when = calls[n].data })

\* C19 witness: publish("v") has returned on a Bus holding echo and, after it, handler1;
\* echo published "w", and handler1 was invoked with "w" before it was invoked with "v"
C19_Witness ==
    \E n \in BusCalls : \E m \in NestedCalls :
        /\ calls[m].parent = n
        /\ calls[n].status = "returned"
        /\ Len(calls[n].live) = 2
        /\ calls[n].live[1].fn = "echo"
        /\ calls[n].live[2].fn = "handler1"
        /\ \E k1 \in InvocationsOf(m) : \E k2 \in InvocationsOf(n) :
              /\ k1 < k2
              /\ log[k1].fn = "handler1" /\ log[k1].data = "w"
              /\ log[k2].fn = "handler1" /\ log[k2].data = "v"
        /\ Cardinality({ k \in DOMAIN log : log[k].fn = "handler1" }) = 2

====
